---- MODULE Spec2Model ----
(***************************************************************************)
(* Model of bitnet_mqtt_device.py: the BitNetMqttDevice session, its       *)
(* receive handler, the message history, the response policy and the       *)
(* device identity (enrollment and the certificate store).                 *)
(***************************************************************************)
EXTENDS Integers, Sequences, FiniteSets, TLC

(***************************************************************************)
(* Bounds of the model.                                                    *)
(***************************************************************************)
\* random.random() is modelled as d / DrawSteps for d in 0 .. DrawSteps-1,
\* the configured probability as p / DrawSteps.
DrawSteps == 4
\* receive-handler invocations explored in SpecRecv
RecvMsgs == 3
\* receive-handler invocations explored in SpecRing: HistoryCap + RingExtra
RingExtra == 2
\* mqtt.Client objects created by start() in SpecSession
MaxClients == 3
\* connection-lost events in SpecSession
MaxLosses == 2
\* receive-handler invocations explored in SpecWorkers
WorkerMsgs == 3
\* clock ticks to the second: utcnow() falls between the whole seconds of a
\* certificate's validity period
TicksPerSecond == 2

(***************************************************************************)
(* Program constants.                                                      *)
(***************************************************************************)
\* on_mqtt_message: "if len(self.message_history) > 100"
HistoryCap == 100

SelfId == "dev-self"
PeerId == "dev-peer"
DeviceIds == {SelfId, PeerId}

(***************************************************************************)
(* Text.  A str is a sequence of one-character strings; str.lower() maps   *)
(* the upper-case letters of the alphabet to their lower-case forms.       *)
(***************************************************************************)
LowerChar(c) ==
    CASE c = "A" -> "a"
      [] c = "B" -> "b"
      [] OTHER -> c

Lower(s) == [i \in 1..Len(s) |-> LowerChar(s[i])]

\* Python "needle in hay" for two str values
StrIn(needle, hay) ==
    \E i \in 0..(Len(hay) - Len(needle)) :
        SubSeq(hay, i + 1, i + Len(needle)) = needle

Texts == { <<>>, <<"b">>, <<"x", "a">>, <<"A", "b">> }

\* message.content: a str, or (a JSON array on the wire) a list, which has
\* no lower()
TextContent(t) == [kind |-> "str", text |-> t]
ListContent == [kind |-> "list", text |-> <<>>]
Contents == { TextContent(t) : t \in Texts } \cup { ListContent }

(***************************************************************************)
(* Configuration: config['response_criteria'], a dict whose keys may be    *)
(* absent; Get is dict.get(key, default).                                  *)
(***************************************************************************)
EmptyDict == [k \in {} |-> 0]

Get(d, key, default) == IF key \in DOMAIN d THEN d[key] ELSE default

OptKey(key, values) == { EmptyDict } \cup { key :> v : v \in values }

FilterLists == { <<>>, << <<"A">> >>, << <<"b", "b">>, <<"a", "B">> >> }

Probabilities == {0, DrawSteps \div 2, DrawSteps}

Draws == 0..(DrawSteps - 1)

AllCriteria ==
    { a @@ b @@ c @@ d :
        a \in OptKey("message_types", { {"presence"}, {"general", "question"} }),
        b \in OptKey("content_filters", FilterLists),
        c \in OptKey("probability", Probabilities),
        d \in OptKey("default_respond", BOOLEAN) }

(***************************************************************************)
(* MqttMessage.  seq stands for the identity of the object (the arrival    *)
(* number of the payload it was decoded from; 0 for a message built        *)
(* locally).                                                               *)
(***************************************************************************)
MqttMessage(seq, device_id, content, message_type, timestamp) ==
    [seq |-> seq, device_id |-> device_id, content |-> content,
     message_type |-> message_type, timestamp |-> timestamp]

PolicyMessages ==
    { MqttMessage(0, dv, c, t, "now") :
        dv \in DeviceIds, c \in Contents, t \in {"general", "presence"} }

(***************************************************************************)
(* BitNetMqttDevice._should_respond                                        *)
(***************************************************************************)
\* the loop over content_filters without the two lower() calls
ContentMatch_CaseSensitive(filters, content) ==
    \E i \in 1..Len(filters) : StrIn(filters[i], content.text)

\* the loop over content_filters: filter_item.lower() in message.content.lower()
ContentMatch(filters, content) ==
    \E i \in 1..Len(filters) : StrIn(Lower(filters[i]), Lower(content.text))

\* message.content.lower() raises AttributeError: reached only after the
\* own-device and message-type checks, and only when a filter is configured
ShouldRespondRaises(criteria, message) ==
    /\ message.device_id # SelfId
    /\ message.message_type \in Get(criteria, "message_types", {"general"})
    /\ Len(Get(criteria, "content_filters", <<>>)) > 0
    /\ message.content.kind # "str"

ProbabilityGate(response_probability, draw) ==
    response_probability < DrawSteps /\ draw > response_probability

\* _should_respond without the own-device check
ShouldRespond_NoOwnCheck(criteria, message, draw) ==
    LET allowed_types == Get(criteria, "message_types", {"general"})
        content_filters == Get(criteria, "content_filters", <<>>)
        response_probability == Get(criteria, "probability", DrawSteps)
        default_respond == Get(criteria, "default_respond", TRUE)
    IN  IF message.message_type \notin allowed_types THEN FALSE
        ELSE IF ContentMatch(content_filters, message.content) THEN TRUE
        ELSE IF ProbabilityGate(response_probability, draw) THEN FALSE
        ELSE default_respond

\* _should_respond with the content filters consulted before the type filter
ShouldRespond_FiltersBeforeType(criteria, message, draw) ==
    LET allowed_types == Get(criteria, "message_types", {"general"})
        content_filters == Get(criteria, "content_filters", <<>>)
        response_probability == Get(criteria, "probability", DrawSteps)
        default_respond == Get(criteria, "default_respond", TRUE)
    IN  IF message.device_id = SelfId THEN FALSE
        ELSE IF ContentMatch(content_filters, message.content) THEN TRUE
        ELSE IF message.message_type \notin allowed_types THEN FALSE
        ELSE IF ProbabilityGate(response_probability, draw) THEN FALSE
        ELSE default_respond

\* _should_respond that rejects when filters are configured and none matches
ShouldRespond_NoMatchRejects(criteria, message, draw) ==
    LET allowed_types == Get(criteria, "message_types", {"general"})
        content_filters == Get(criteria, "content_filters", <<>>)
        response_probability == Get(criteria, "probability", DrawSteps)
        default_respond == Get(criteria, "default_respond", TRUE)
    IN  IF message.device_id = SelfId THEN FALSE
        ELSE IF message.message_type \notin allowed_types THEN FALSE
        ELSE IF ContentMatch(content_filters, message.content) THEN TRUE
        ELSE IF Len(content_filters) > 0 THEN FALSE
        ELSE IF ProbabilityGate(response_probability, draw) THEN FALSE
        ELSE default_respond

ShouldRespond(criteria, message, draw) ==
    LET allowed_types == Get(criteria, "message_types", {"general"})
        content_filters == Get(criteria, "content_filters", <<>>)
        response_probability == Get(criteria, "probability", DrawSteps)
        default_respond == Get(criteria, "default_respond", TRUE)
    IN  IF message.device_id = SelfId THEN FALSE
        ELSE IF message.message_type \notin allowed_types THEN FALSE
        ELSE IF ContentMatch(content_filters, message.content) THEN TRUE
        ELSE IF ProbabilityGate(response_probability, draw) THEN FALSE
        ELSE default_respond

(***************************************************************************)
(* Device identity: the files of the certificate directory, the           *)
(* enrollment service's answers, DeviceRegistration.register_device,       *)
(* CertificateManager.save_certificates / validate_certificates and        *)
(* BitNetMqttDevice.ensure_certificates.                                   *)
(*                                                                         *)
(* A file, and a text the enrollment service returns, is a record: pem is  *)
(* "absent" (no file), "unreadable" (reading raises), "empty" (''),        *)
(* "garbage" (text that is no PEM object), "key" (a PEM private key) or    *)
(* "cert" (a PEM certificate with its validity period, in whole seconds    *)
(* relative to the origin of the clock).  The clock now counts ticks,      *)
(* TicksPerSecond to the second: datetime.utcnow() is finer than the       *)
(* certificate's whole seconds.                                            *)
(***************************************************************************)
File(pem, nb, na) == [pem |-> pem, not_valid_before |-> nb, not_valid_after |-> na]

Absent == File("absent", 0, 0)
Unreadable == File("unreadable", 0, 0)
EmptyText == File("empty", 0, 0)
Garbage == File("garbage", 0, 0)
KeyPem == File("key", 0, 0)
Cert(nb, na) == File("cert", nb, na)

\* validate_certificates: timedelta(days=7), in seconds
ExpiryWarning == 7 * 86400

\* the three paths ensure_certificates and start() build
CertPaths == {"cert", "key", "ca"}

Disk(cert, key, ca) == [cert |-> cert, key |-> key, ca |-> ca]

Exists(f) == f.pem # "absent"

\* validate_certificates that accepts a certificate at the instant it expires
ValidateCertificates_ExpiryExclusive(paths, fs, t) ==
    IF "cert" \notin paths \/ ~Exists(fs.cert)
    THEN [result |-> FALSE, warned |-> FALSE]
    ELSE IF fs.cert.pem # "cert"
    THEN \* read_bytes or load_pem_x509_certificate raises: caught
         [result |-> FALSE, warned |-> FALSE]
    ELSE IF fs.cert.not_valid_after * TicksPerSecond < t
    THEN [result |-> FALSE, warned |-> FALSE]
    ELSE IF fs.cert.not_valid_before * TicksPerSecond > t
    THEN [result |-> FALSE, warned |-> FALSE]
    ELSE [result |-> TRUE,
          warned |-> fs.cert.not_valid_after * TicksPerSecond
                        <= t + ExpiryWarning * TicksPerSecond]

\* CertificateManager.validate_certificates(cert_files): paths is the set
\* of keys of cert_files, fs the directory, t the value of utcnow()
ValidateCertificates(paths, fs, t) ==
    IF "cert" \notin paths \/ ~Exists(fs.cert)
    THEN [result |-> FALSE, warned |-> FALSE]
    ELSE IF fs.cert.pem # "cert"
    THEN \* read_bytes or load_pem_x509_certificate raises: caught
         [result |-> FALSE, warned |-> FALSE]
    ELSE IF fs.cert.not_valid_after * TicksPerSecond <= t
    THEN [result |-> FALSE, warned |-> FALSE]
    ELSE IF fs.cert.not_valid_before * TicksPerSecond > t
    THEN [result |-> FALSE, warned |-> FALSE]
    ELSE [result |-> TRUE,
          warned |-> fs.cert.not_valid_after * TicksPerSecond
                        <= t + ExpiryWarning * TicksPerSecond]

\* what register_device returns: None, or the dict certificates
None == [none |-> TRUE, data |-> EmptyDict]
Bundle(d) == [none |-> FALSE, data |-> d]

\* an answer of the enrollment service: post is what the POST to
\* /register-device does ("raises", "status_500", "status_200"), body the
\* body of a 200 answer, ca what the GET of /ca-certificate does
Body(kind, section) == [kind |-> kind, section |-> section]

Response(post, body, ca_outcome, ca_text) ==
    [post |-> post, body |-> body, ca |-> [outcome |-> ca_outcome, text |-> ca_text]]

\* DeviceRegistration.register_device: the value returned, the requests
\* made, and whether device_config's client_name / auth_name were assigned
\* register_device that returns None when the CA certificate cannot be fetched
RegisterDevice_NeedsCa(resp) ==
    IF resp.post # "status_200"
    THEN [bundle |-> None, posts |-> 1, gets |-> 0, names_set |-> FALSE]
    ELSE IF resp.body.kind \in {"not_json", "no_registration"}
    THEN \* response.json() or result["registration"] raises: caught
         [bundle |-> None, posts |-> 1, gets |-> 0, names_set |-> FALSE]
    ELSE IF resp.body.kind = "no_certificate"
    THEN [bundle |-> None, posts |-> 1, gets |-> 0, names_set |-> TRUE]
    ELSE IF resp.body.kind = "certificate_not_object"
    THEN \* cert_info.get raises: caught
         [bundle |-> None, posts |-> 1, gets |-> 0, names_set |-> TRUE]
    ELSE LET cert_info == resp.body.section
             certificates ==
                 ("client_cert" :> Get(cert_info, "certificate", EmptyText))
                 @@ ("client_key" :> Get(cert_info, "privateKey", EmptyText))
                 @@ ("public_key" :> Get(cert_info, "publicKey", EmptyText))
             with_ca == IF resp.ca.outcome = "status_200"
                        THEN certificates @@ ("ca_cert" :> resp.ca.text)
                        ELSE certificates
         IN  [bundle |-> IF resp.ca.outcome = "status_200" THEN Bundle(with_ca)
                         ELSE None,
              posts |-> 1, gets |-> 1, names_set |-> TRUE]

RegisterDevice(resp) ==
    IF resp.post # "status_200"
    THEN [bundle |-> None, posts |-> 1, gets |-> 0, names_set |-> FALSE]
    ELSE IF resp.body.kind \in {"not_json", "no_registration"}
    THEN \* response.json() or result["registration"] raises: caught
         [bundle |-> None, posts |-> 1, gets |-> 0, names_set |-> FALSE]
    ELSE IF resp.body.kind = "no_certificate"
    THEN [bundle |-> None, posts |-> 1, gets |-> 0, names_set |-> TRUE]
    ELSE IF resp.body.kind = "certificate_not_object"
    THEN \* cert_info.get raises: caught
         [bundle |-> None, posts |-> 1, gets |-> 0, names_set |-> TRUE]
    ELSE LET cert_info == resp.body.section
             certificates ==
                 ("client_cert" :> Get(cert_info, "certificate", EmptyText))
                 @@ ("client_key" :> Get(cert_info, "privateKey", EmptyText))
                 @@ ("public_key" :> Get(cert_info, "publicKey", EmptyText))
             with_ca == IF resp.ca.outcome = "status_200"
                        THEN certificates @@ ("ca_cert" :> resp.ca.text)
                        ELSE certificates
         IN  [bundle |-> Bundle(with_ca), posts |-> 1, gets |-> 1, names_set |-> TRUE]

\* CertificateManager.save_certificates: fail_at names the write that
\* raises ("none": no write raises); the files written before it stay
SaveFailures == {"none", "cert", "key", "chmod", "ca"}

SaveCertificates(cert_data, fs, fail_at) ==
    LET has(k) == k \in DOMAIN cert_data
        raised_at_cert == has("client_cert") /\ fail_at = "cert"
        cert_written == has("client_cert") /\ ~raised_at_cert
        raised_at_key == /\ ~raised_at_cert
                         /\ has("client_key") /\ fail_at \in {"key", "chmod"}
        key_written == ~raised_at_cert /\ has("client_key") /\ fail_at # "key"
        raised_at_ca == /\ ~raised_at_cert /\ ~raised_at_key
                        /\ has("ca_cert") /\ fail_at = "ca"
        ca_written == /\ ~raised_at_cert /\ ~raised_at_key
                      /\ has("ca_cert") /\ ~raised_at_ca
        raised == raised_at_cert \/ raised_at_key \/ raised_at_ca
        written == {k \in CertPaths : \/ k = "cert" /\ cert_written
                                      \/ k = "key" /\ key_written
                                      \/ k = "ca" /\ ca_written}
    IN  [cert_files |-> IF raised THEN {} ELSE written,
         writes |-> written,
         fs |-> Disk(IF cert_written THEN cert_data["client_cert"] ELSE fs.cert,
                     IF key_written THEN cert_data["client_key"] ELSE fs.key,
                     IF ca_written THEN cert_data["ca_cert"] ELSE fs.ca)]

\* BitNetMqttDevice.ensure_certificates
NotRegistered == [bundle |-> None, posts |-> 0, gets |-> 0, names_set |-> FALSE]

\* ensure_certificates that enrolls whatever the directory holds
EnsureCertificates_AlwaysEnrolls(fs, t, resp, fail_at) ==
    LET present == \A k \in CertPaths : Exists(fs[k])
        valid == ValidateCertificates(CertPaths, fs, t).result
        reg == RegisterDevice(resp)
        saved == SaveCertificates(reg.bundle.data, fs, fail_at)
    IN  IF FALSE
        THEN [result |-> TRUE, validated |-> TRUE, reg |-> NotRegistered,
              writes |-> {}, fs |-> fs]
        ELSE IF reg.bundle.none
        THEN [result |-> FALSE, validated |-> present, reg |-> reg,
              writes |-> {}, fs |-> fs]
        ELSE [result |-> saved.cert_files # {}, validated |-> present, reg |-> reg,
              writes |-> saved.writes, fs |-> saved.fs]

\* ensure_certificates that does not look at what save_certificates returned
EnsureCertificates_IgnoresSaveFailure(fs, t, resp, fail_at) ==
    LET present == \A k \in CertPaths : Exists(fs[k])
        valid == ValidateCertificates(CertPaths, fs, t).result
        reg == RegisterDevice(resp)
        saved == SaveCertificates(reg.bundle.data, fs, fail_at)
    IN  IF present /\ valid
        THEN [result |-> TRUE, validated |-> TRUE, reg |-> NotRegistered,
              writes |-> {}, fs |-> fs]
        ELSE IF reg.bundle.none
        THEN [result |-> FALSE, validated |-> present, reg |-> reg,
              writes |-> {}, fs |-> fs]
        ELSE [result |-> TRUE, validated |-> present, reg |-> reg,
              writes |-> saved.writes, fs |-> saved.fs]

EnsureCertificates(fs, t, resp, fail_at) ==
    LET present == \A k \in CertPaths : Exists(fs[k])
        valid == ValidateCertificates(CertPaths, fs, t).result
        reg == RegisterDevice(resp)
        saved == SaveCertificates(reg.bundle.data, fs, fail_at)
    IN  IF present /\ valid
        THEN [result |-> TRUE, validated |-> TRUE, reg |-> NotRegistered,
              writes |-> {}, fs |-> fs]
        ELSE IF reg.bundle.none
        THEN [result |-> FALSE, validated |-> present, reg |-> reg,
              writes |-> {}, fs |-> fs]
        ELSE [result |-> saved.cert_files # {}, validated |-> present, reg |-> reg,
              writes |-> saved.writes, fs |-> saved.fs]

(***************************************************************************)
(* State.                                                                  *)
(***************************************************************************)
VARIABLES
    config,             \* self.config['response_criteria'] (fixed at construction)
    message_history,    \* self.message_history
    workers,            \* response_worker threads started by _handle_response
    running,            \* self.running
    mqtt_client,        \* self.mqtt_client: 0 is None, else the client object
    conn,               \* per client object: the transport's connection state
    loops,              \* client objects whose background loop thread runs
    is_connected,       \* self.is_connected
    join_message_sent,  \* self.join_message_sent
    caller_pc,          \* where the thread that calls start()/stop() is
    sent,               \* history variable: messages handed to mqtt_client.publish,
                        \* and a "start" mark for every start() that returned True
    nrecv,              \* number of on_mqtt_message invocations so far
    last,               \* what the last on_mqtt_message invocation did
    accepted,           \* history variable: the well-formed payloads, in arrival order
    shadow,             \* history variable: the device fed the well-formed payloads only
    acked,              \* history variable: on_mqtt_connect(rc=0) ran since stop() returned
    stopped_once,       \* history variable: a stop() has returned
    losses,             \* history variable: number of on_mqtt_disconnect invocations
    pol_msg,            \* SpecPolicy: the message given to _should_respond
    pol_draw,           \* SpecPolicy: the value random.random() returns
    pol_result,         \* SpecPolicy: what _should_respond did
    files,              \* the certificate directory: <id>.crt, <id>.key, ca.crt
    now,                \* the clock (datetime.utcnow()), in ticks
    dropped,            \* history variable: the manual messages whose
                        \* publish_message call found no connected client
    last_start,         \* what the last start() call did
    last_ensure,        \* what the last ensure_certificates call did
    last_register,      \* what the last register_device call did
    last_validate,      \* SpecValidate: what validate_certificates returned
    round_trip,         \* SpecRoundTrip: a message, its to_dict form, and from_dict of that
    device_config,      \* DeviceRegistration.device_config: its client_name and
                        \* auth_name entries
    credentials,        \* the client id, username and password start() gave the
                        \* last mqtt.Client it built
    replies             \* history variable: the replies handed to mqtt_client.publish

vars == << config, message_history, workers, running, mqtt_client, conn, loops,
           is_connected, join_message_sent, caller_pc, sent, nrecv, last,
           accepted, shadow, acked, stopped_once, losses,
           pol_msg, pol_draw, pol_result,
           files, now, dropped, last_start, last_ensure, last_register,
           last_validate, round_trip, device_config, credentials, replies >>

recvVars == << message_history, workers, nrecv, last, accepted, shadow >>
sessionVars == << running, mqtt_client, conn, loops, is_connected,
                  join_message_sent, caller_pc, sent, acked, stopped_once, losses >>
polVars == << pol_msg, pol_draw, pol_result >>
idVars == << files, now, last_ensure, last_register, last_validate >>
auxVars == << round_trip, device_config, credentials, replies >>

Clients == 1..MaxClients

(***************************************************************************)
(* Inbound payloads (msg.payload of on_mqtt_message).                      *)
(***************************************************************************)
NumberContent == [kind |-> "number", text |-> <<>>]
NoContent == TextContent(<<>>)

\* a payload that is not a JSON object: invalid UTF-8, invalid JSON, a JSON
\* number, a JSON array
Special(kind) ==
    [kind |-> kind, has_device_id |-> FALSE, device_id |-> "",
     has_content |-> FALSE, content |-> NoContent,
     has_type |-> FALSE, message_type |-> "", timestamp |-> "absent"]

\* a JSON object; timestamp is "absent", "iso" (parseable) or "bad"
Object(has_device_id, device_id, has_content, content, has_type, message_type, timestamp) ==
    [kind |-> "object", has_device_id |-> has_device_id, device_id |-> device_id,
     has_content |-> has_content, content |-> content,
     has_type |-> has_type, message_type |-> message_type, timestamp |-> timestamp]

NoPayload == Special("none")

RecvPayloads ==
    { Special(k) : k \in {"bad_utf8", "not_json", "json_scalar", "json_array"} }
    \cup { Object(FALSE, "", TRUE, TextContent(<<"b">>), FALSE, "", "absent"),
           Object(TRUE, PeerId, FALSE, NoContent, TRUE, "general", "iso"),
           Object(FALSE, "", FALSE, NoContent, FALSE, "", "absent"),
           Object(TRUE, PeerId, TRUE, TextContent(<<"b">>), FALSE, "", "bad"),
           Object(TRUE, PeerId, TRUE, NumberContent, FALSE, "", "absent"),
           Object(TRUE, PeerId, TRUE, ListContent, FALSE, "", "iso") }
    \cup { Object(TRUE, dv, TRUE, TextContent(t), TRUE, "presence", "iso") :
             dv \in DeviceIds, t \in { <<"b">>, <<"A", "b">> } }
    \cup { Object(TRUE, dv, TRUE, TextContent(t), FALSE, "", "absent") :
             dv \in DeviceIds, t \in { <<"b">>, <<"A", "b">> } }

RecvCriteria ==
    { EmptyDict,
      ("message_types" :> {"presence"}) @@ ("probability" :> 0),
      ("content_filters" :> << <<"A">> >>) @@ ("default_respond" :> FALSE),
      ("probability" :> (DrawSteps \div 2)) }

(***************************************************************************)
(* MqttMessage.from_dict                                                   *)
(***************************************************************************)
\* datetime.fromisoformat raises ValueError on an unparseable timestamp
FromDictRaises(p) == p.timestamp = "bad"

FromDict(p, seq) ==
    MqttMessage(seq, p.device_id, p.content,
                IF p.has_type THEN p.message_type ELSE "general",
                IF p.timestamp = "absent" THEN "now" ELSE "parsed")

(***************************************************************************)
(* BitNetMqttDevice.on_mqtt_message                                        *)
(***************************************************************************)
\* pop() instead of pop(0): the newest message is dropped
Trim_KeepsOldest(h) ==
    IF Len(h) > HistoryCap THEN SubSeq(h, 1, Len(h) - 1) ELSE h

\* keep the last HistoryCap messages: pop(0) once the length exceeds it
Trim(h) == IF Len(h) > HistoryCap THEN Tail(h) ELSE h

\* the handler without the two required-field checks and with from_dict
\* tolerating a missing key
HandlerPath_AppendsFirst(p) ==
    CASE p.kind = "bad_utf8" -> "escape"
      [] p.kind = "not_json" -> "json_error"
      [] p.kind = "json_scalar" -> "error"
      [] OTHER -> "append"

\* the statements before message_history.append: where the handler goes
HandlerPath(p) ==
    CASE p.kind = "bad_utf8" -> "escape"          \* payload.decode() raises; so does
                                                  \* the decode() in the last handler
      [] p.kind = "not_json" -> "json_error"      \* json.JSONDecodeError, logged
      [] p.kind = "json_scalar" -> "error"        \* "'device_id' not in 5": TypeError
      [] p.kind = "json_array" -> "missing_device_id"
      [] ~p.has_device_id -> "missing_device_id"
      [] ~p.has_content -> "missing_content"
      [] FromDictRaises(p) -> "error"
      [] p.content.kind = "number" -> "error"     \* message.content[:100]: TypeError
      [] OTHER -> "append"

\* _handle_response: one more response_worker thread, for this message
\* a handler that joins the thread it started
HandleResponse_Joins(wrk, message) ==
    wrk \cup { [message |-> message, pc |-> "done"] }

HandleResponse(wrk, message) == wrk \cup { [message |-> message, pc |-> "started"] }

\* the handler's effect on (history, workers) and what it did
OnMessageEffect(hist, wrk, criteria, p, seq, draw) ==
    LET path == HandlerPath(p)
        message == FromDict(p, seq)
        appended == path = "append"
        raises == appended /\ ShouldRespondRaises(criteria, message)
        respond == appended /\ ~raises /\ ShouldRespond(criteria, message, draw)
    IN  [ history |-> IF appended THEN Trim(Append(hist, message)) ELSE hist,
          workers |-> IF respond THEN HandleResponse(wrk, message) ELSE wrk,
          outcome |-> IF path = "escape" THEN "raised" ELSE "returned",
          path |-> IF raises THEN "policy_error" ELSE path,
          policy_evaluated |-> appended,
          dispatched |-> respond ]

\* the payload carries device_id and content and decodes into a Message
\* (text or list content, timestamp absent or ISO-8601)
WellFormed(p) ==
    /\ p.kind = "object"
    /\ p.has_device_id /\ p.has_content
    /\ p.timestamp # "bad"
    /\ p.content.kind \in {"str", "list"}

OnMqttMessage(p, draw) ==
    LET seq == nrecv + 1
        eff == OnMessageEffect(message_history, workers, config, p, seq, draw)
        sh == OnMessageEffect(shadow.history, shadow.workers, config, p, seq, draw)
    IN  /\ mqtt_client \in loops
        /\ conn[mqtt_client] = "connected"
        /\ nrecv' = seq
        /\ message_history' = eff.history
        /\ workers' = eff.workers
        /\ last' = [payload |-> p, outcome |-> eff.outcome, path |-> eff.path,
                    policy_evaluated |-> eff.policy_evaluated,
                    dispatched |-> eff.dispatched]
        /\ accepted' = IF WellFormed(p) THEN Append(accepted, FromDict(p, seq))
                       ELSE accepted
        /\ shadow' = IF WellFormed(p)
                     THEN [history |-> sh.history, workers |-> sh.workers]
                     ELSE shadow
        \* an exception that leaves the callback reaches the transport's loop
        \* thread: the library logs it and goes on, or the thread ends
        /\ IF eff.outcome = "raised"
           THEN loops' \in {loops, loops \ {mqtt_client}}
           ELSE loops' = loops
        /\ UNCHANGED << config, running, mqtt_client, conn, is_connected,
                        join_message_sent, caller_pc, sent, acked, stopped_once,
                        losses, polVars, dropped, last_start, idVars, auxVars >>

(***************************************************************************)
(* BitNetMqttDevice.publish_message: sent only when a client exists and    *)
(* reports itself connected; cn is the transport state at the call.        *)
(***************************************************************************)
\* publish_message that hands the message to the client whatever its state
PublishMessage_NoCheck(out, client, cn, kind) == Append(out, kind)

PublishMessage(out, client, cn, kind) ==
    IF client # 0 /\ cn[client] = "connected" THEN Append(out, kind) ELSE out

(***************************************************************************)
(* BitNetMqttDevice.start.  The transport state of a client object is      *)
(* "none" (no such object yet), "new" (built, not connected), "connecting" *)
(* (connect() accepted, CONNACK awaited), "connected", "lost" (connection  *)
(* lost or refused; the loop thread will reconnect) or "closed"            *)
(* (disconnect() called).                                                  *)
(***************************************************************************)
StartOutcomes == {"certificates_failed", "bitnet_failed", "tls_failed",
                  "connect_failed", "ok"}

FreshClient == CHOOSE c \in Clients : conn[c] = "none" /\ \A d \in Clients : conn[d] = "none" => c <= d

\* the clientName and authenticationName of the enrollment service's answer
ServiceNames == ("client_name" :> "svc-client") @@ ("auth_name" :> "svc-auth")

\* self.config as create_default_config builds it: no client_name and no
\* auth_name entry
ConfigNames == EmptyDict

\* the defaults of start(): f"device-{device_id}", f"{device_id}-authnID"
DefaultClientName == "device-dev-self"
DefaultAuthName == "dev-self-authnID"

NoCredentials == [client_id |-> "none", username |-> "none", password |-> "none"]

\* the ensure_certificates call of start() and of main(): the directory
\* after it, and the records of the call
NoRegister == [called |-> FALSE, resp |-> Response("raises", Body("not_json", EmptyDict), "raises", Garbage),
               bundle |-> None, gets |-> 0, names_set |-> FALSE,
               names_before |-> EmptyDict]

NoEnsure == [called |-> FALSE, before |-> Disk(Absent, Absent, Absent),
             result |-> FALSE, registrations |-> 0, requests |-> 0, bundle |-> None,
             fail_at |-> "none", writes |-> {}, after_hit |-> FALSE]

EnsureStep(resp, fail_at) ==
    LET ens == EnsureCertificates(files, now, resp, fail_at)
    IN  /\ files' = ens.fs
        /\ last_ensure' = [called |-> TRUE, before |-> files,
                           result |-> ens.result,
                           registrations |-> ens.reg.posts,
                           requests |-> ens.reg.posts + ens.reg.gets,
                           bundle |-> ens.reg.bundle,
                           fail_at |-> fail_at,
                           writes |-> ens.writes,
                           after_hit |-> /\ last_ensure.called
                                         /\ last_ensure.result
                                         /\ last_ensure.registrations = 0]
        /\ last_register' = IF ens.reg.posts > 0
                            THEN [called |-> TRUE, resp |-> resp,
                                  bundle |-> ens.reg.bundle, gets |-> ens.reg.gets,
                                  names_set |-> ens.reg.names_set,
                                  names_before |-> device_config]
                            ELSE last_register
        \* lines 61-62: the names of the answer's registration section
        /\ device_config' = IF ens.reg.names_set
                            THEN ServiceNames @@ device_config
                            ELSE device_config

\* start() that goes on after a failed inference-engine check
StartSteps_NoReturnAfterCheck(ensured, outcome) ==
    IF ~ensured
    THEN << "ensure_certificates" >>
    ELSE IF outcome = "tls_failed"
    THEN << "ensure_certificates", "validate_setup", "client", "tls" >>
    ELSE IF outcome = "connect_failed"
    THEN << "ensure_certificates", "validate_setup", "client", "tls", "connect" >>
    ELSE << "ensure_certificates", "validate_setup", "client", "tls", "connect",
            "loop_start" >>

\* the steps of start() that are reached: ensured is what
\* ensure_certificates returned, outcome says which later step fails, if any
StartSteps(ensured, outcome) ==
    IF ~ensured
    THEN << "ensure_certificates" >>
    ELSE IF outcome = "bitnet_failed"
    THEN << "ensure_certificates", "validate_setup" >>
    ELSE IF outcome = "tls_failed"
    THEN << "ensure_certificates", "validate_setup", "client", "tls" >>
    ELSE IF outcome = "connect_failed"
    THEN << "ensure_certificates", "validate_setup", "client", "tls", "connect" >>
    ELSE << "ensure_certificates", "validate_setup", "client", "tls", "connect",
            "loop_start" >>

NoStart == [called |-> FALSE, outcome |-> "none", result |-> FALSE, steps |-> <<>>]

Start(outcome, resp, fail_at) ==
    LET ens == EnsureCertificates(files, now, resp, fail_at)
        steps == StartSteps(ens.result, outcome)
        reached(step) == \E i \in 1..Len(steps) : steps[i] = step
        connected == reached("connect") /\ outcome # "connect_failed"
        result == reached("loop_start")
    IN  /\ (outcome = "certificates_failed") <=> ~ens.result
        \* load_cert_chain raises unless the files hold a certificate and a key
        /\ outcome \in {"connect_failed", "ok"}
              => ens.fs.cert.pem = "cert" /\ ens.fs.key.pem = "key"
        /\ EnsureStep(resp, fail_at)
        /\ last_start' = [called |-> TRUE, outcome |-> outcome,
                          result |-> result, steps |-> steps]
        /\ IF reached("client")
           THEN /\ \E c \in Clients : conn[c] = "none"
                /\ mqtt_client' = FreshClient
                /\ conn' = [conn EXCEPT ![FreshClient] =
                               IF connected THEN "connecting" ELSE "new"]
                /\ running' = IF connected THEN TRUE ELSE running
                /\ loops' = IF reached("loop_start") THEN loops \cup {FreshClient}
                            ELSE loops
           ELSE UNCHANGED << mqtt_client, conn, running, loops >>
        /\ credentials' = IF reached("client")
                          THEN [client_id |-> Get(ConfigNames, "client_name", DefaultClientName),
                                username |-> Get(ConfigNames, "auth_name", DefaultAuthName),
                                password |-> ""]
                          ELSE credentials
        /\ caller_pc' = IF result THEN "started" ELSE caller_pc
        /\ sent' = IF result THEN Append(sent, "start") ELSE sent
        /\ UNCHANGED << config, recvVars, is_connected, join_message_sent,
                        acked, stopped_once, losses, polVars, dropped, now,
                        last_validate, round_trip, replies >>

(***************************************************************************)
(* BitNetMqttDevice.stop: up to the sleep, and from loop_stop() on.        *)
(***************************************************************************)
\* stop() that publishes no leaving message
StopBegin_NoGoodbye ==
    /\ caller_pc \in {"stopped", "started"}
    /\ running' = FALSE
    /\ IF mqtt_client # 0
       THEN /\ sent' = sent
            /\ caller_pc' = "stopping"
            /\ UNCHANGED << is_connected, join_message_sent, acked, stopped_once >>
       ELSE /\ is_connected' = FALSE
            /\ join_message_sent' = FALSE
            /\ caller_pc' = "stopped"
            /\ acked' = FALSE
            /\ stopped_once' = TRUE
            /\ UNCHANGED sent
    /\ UNCHANGED << config, recvVars, mqtt_client, conn, loops, losses, polVars, dropped, last_start, idVars, auxVars >>

StopBegin ==
    /\ caller_pc \in {"stopped", "started"}
    /\ running' = FALSE
    /\ IF mqtt_client # 0
       THEN /\ sent' = PublishMessage(sent, mqtt_client, conn, "leaving")
            /\ caller_pc' = "stopping"
            /\ UNCHANGED << is_connected, join_message_sent, acked, stopped_once >>
       ELSE /\ is_connected' = FALSE
            /\ join_message_sent' = FALSE
            /\ caller_pc' = "stopped"
            /\ acked' = FALSE
            /\ stopped_once' = TRUE
            /\ UNCHANGED sent
    /\ UNCHANGED << config, recvVars, mqtt_client, conn, loops, losses, polVars, dropped, last_start, idVars, auxVars >>

\* stop() that leaves join_message_sent as it is
StopTeardown_KeepsJoinFlag ==
    /\ caller_pc = "stopping"
    /\ loops' = loops \ {mqtt_client}
    /\ conn' = [conn EXCEPT ![mqtt_client] = "closed"]
    /\ is_connected' = FALSE
    /\ caller_pc' = "stopped"
    /\ acked' = FALSE
    /\ stopped_once' = TRUE
    /\ UNCHANGED << config, recvVars, running, mqtt_client, join_message_sent,
                    sent, losses, polVars, dropped, last_start, idVars, auxVars >>

StopTeardown ==
    /\ caller_pc = "stopping"
    /\ loops' = loops \ {mqtt_client}                        \* loop_stop()
    /\ conn' = [conn EXCEPT ![mqtt_client] = "closed"]       \* disconnect()
    /\ is_connected' = FALSE
    /\ join_message_sent' = FALSE
    /\ caller_pc' = "stopped"
    /\ acked' = FALSE
    /\ stopped_once' = TRUE
    /\ UNCHANGED << config, recvVars, running, mqtt_client, sent, losses, polVars, dropped, last_start, idVars, auxVars >>

(***************************************************************************)
(* BitNetMqttDevice.on_mqtt_connect, called by the loop thread of client c *)
(* when the broker answers the connection request with code rc.            *)
(***************************************************************************)
\* on_mqtt_connect that never records the announcement
OnMqttConnect_NoFlag(c, rc) ==
    /\ c \in loops
    /\ conn[c] = "connecting"
    /\ IF rc = 0
       THEN /\ conn' = [conn EXCEPT ![c] = "connected"]
            /\ is_connected' = TRUE
            /\ acked' = TRUE
            /\ IF ~join_message_sent
               THEN sent' = PublishMessage(sent, mqtt_client, conn', "joined")
               ELSE UNCHANGED sent
            /\ UNCHANGED join_message_sent
       ELSE /\ conn' = [conn EXCEPT ![c] = "lost"]
            /\ is_connected' = FALSE
            /\ UNCHANGED << join_message_sent, sent, acked >>
    /\ UNCHANGED << config, recvVars, running, mqtt_client, loops, caller_pc,
                    stopped_once, losses, polVars, dropped, last_start, idVars, auxVars >>

OnMqttConnect(c, rc) ==
    /\ c \in loops
    /\ conn[c] = "connecting"
    /\ IF rc = 0
       THEN /\ conn' = [conn EXCEPT ![c] = "connected"]
            /\ is_connected' = TRUE
            /\ acked' = TRUE
            /\ IF ~join_message_sent
               THEN /\ sent' = PublishMessage(sent, mqtt_client, conn', "joined")
                    /\ join_message_sent' = TRUE
               ELSE UNCHANGED << sent, join_message_sent >>
       ELSE /\ conn' = [conn EXCEPT ![c] = "lost"]
            /\ is_connected' = FALSE
            /\ UNCHANGED << join_message_sent, sent, acked >>
    /\ UNCHANGED << config, recvVars, running, mqtt_client, loops, caller_pc,
                    stopped_once, losses, polVars, dropped, last_start, idVars, auxVars >>

(***************************************************************************)
(* BitNetMqttDevice.on_mqtt_disconnect, called by the loop thread of       *)
(* client c when its connection is lost, with reason code rc.              *)
(***************************************************************************)
\* on_mqtt_disconnect that also resets join_message_sent
OnMqttDisconnect_ResetsJoin(c, rc) ==
    /\ c \in loops
    /\ conn[c] \in {"connecting", "connected"}
    /\ losses < MaxLosses
    /\ conn' = [conn EXCEPT ![c] = "lost"]
    /\ is_connected' = FALSE
    /\ join_message_sent' = FALSE
    /\ losses' = losses + 1
    /\ UNCHANGED << config, recvVars, running, mqtt_client, loops, caller_pc,
                    sent, acked, stopped_once, polVars, dropped, last_start, idVars, auxVars >>

OnMqttDisconnect(c, rc) ==
    /\ c \in loops
    /\ conn[c] \in {"connecting", "connected"}
    /\ losses < MaxLosses
    /\ conn' = [conn EXCEPT ![c] = "lost"]
    /\ is_connected' = FALSE
    /\ losses' = losses + 1
    /\ UNCHANGED << config, recvVars, running, mqtt_client, loops, caller_pc,
                    join_message_sent, sent, acked, stopped_once, polVars, dropped, last_start, idVars, auxVars >>

\* the loop thread started by loop_start() connects again after a loss
Reconnect(c) ==
    /\ c \in loops
    /\ conn[c] = "lost"
    /\ conn' = [conn EXCEPT ![c] = "connecting"]
    /\ UNCHANGED << config, recvVars, running, mqtt_client, loops, is_connected,
                    join_message_sent, caller_pc, sent, acked, stopped_once,
                    losses, polVars, dropped, last_start, idVars, auxVars >>

(***************************************************************************)
(* BitNetMqttDevice.send_manual_message, called with one of the texts      *)
(* ManualMessages, each at most once.                                      *)
(***************************************************************************)
ManualMessages == {"manual-1", "manual-2"}

SendManualMessage(m) ==
    /\ caller_pc \in {"stopped", "started"}
    /\ m \notin dropped
    /\ \A i \in 1..Len(sent) : sent[i] # m
    /\ sent' = PublishMessage(sent, mqtt_client, conn, m)
    /\ dropped' = IF mqtt_client # 0 /\ conn[mqtt_client] = "connected"
                  THEN dropped ELSE dropped \cup {m}
    /\ UNCHANGED << config, recvVars, running, mqtt_client, conn, loops,
                    is_connected, join_message_sent, caller_pc, acked,
                    stopped_once, losses, polVars, last_start, idVars, auxVars >>

(***************************************************************************)
(* MqttMessage.to_dict and MqttMessage.from_dict on whole messages.  A     *)
(* datetime is a record: seconds (the wall-clock reading, in seconds),     *)
(* microsecond, and whether it carries a UTC offset (aware) and which (in  *)
(* minutes).  The text isoformat() writes and fromisoformat() reads is a   *)
(* record of its parts: the seconds, the digits after the point (none when *)
(* the microsecond is 0) and the suffix ("", "Z" or the offset's text).    *)
(***************************************************************************)
DateTime(seconds, microsecond, aware, offset) ==
    [seconds |-> seconds, microsecond |-> microsecond, aware |-> aware, offset |-> offset]

\* the six digits of isoformat()'s fraction
Digits(n) == << (n \div 100000) % 10, (n \div 10000) % 10, (n \div 1000) % 10,
                (n \div 100) % 10, (n \div 10) % 10, n % 10 >>

RECURSIVE Number(_)
Number(ds) == IF ds = <<>> THEN 0
              ELSE 10 * Number(SubSeq(ds, 1, Len(ds) - 1)) + ds[Len(ds)]

\* fromisoformat pads a three-digit fraction to six
Microseconds(ds) == IF Len(ds) = 3 THEN 1000 * Number(ds) ELSE Number(ds)

OffsetText(minutes) ==
    CASE minutes = 0 -> "+00:00"
      [] minutes = 120 -> "+02:00"
      [] OTHER -> "-05:00"

OffsetMinutes(text) ==
    CASE text = "+00:00" -> 0
      [] text = "+02:00" -> 120
      [] OTHER -> -300

IsoText(seconds, fraction, suffix) ==
    [seconds |-> seconds, fraction |-> fraction, suffix |-> suffix]

\* isoformat() that writes whole seconds only
IsoFormat_WholeSeconds(dt) ==
    IsoText(dt.seconds, <<>>, IF dt.aware THEN OffsetText(dt.offset) ELSE "")

\* datetime.isoformat()
IsoFormat(dt) ==
    IsoText(dt.seconds,
            IF dt.microsecond = 0 THEN <<>> ELSE Digits(dt.microsecond),
            IF dt.aware THEN OffsetText(dt.offset) ELSE "")

\* datetime.fromisoformat(text.replace('Z', '+00:00'))
FromIsoFormat(text) ==
    LET suffix == IF text.suffix = "Z" THEN "+00:00" ELSE text.suffix
    IN  DateTime(text.seconds, Microseconds(text.fraction), suffix # "",
                 IF suffix = "" THEN 0 ELSE OffsetMinutes(suffix))

\* a message object with all its attributes
Message(id, device_id, content, message_type, timestamp) ==
    [id |-> id, device_id |-> device_id, content |-> content,
     message_type |-> message_type, timestamp |-> timestamp]

\* MqttMessage.to_dict
ToDict(m) ==
    ("id" :> m.id) @@ ("device_id" :> m.device_id) @@ ("content" :> m.content)
    @@ ("timestamp" :> IsoFormat(m.timestamp)) @@ ("message_type" :> m.message_type)

\* MqttMessage.from_dict: uuid is what uuid.uuid4() gives the new object,
\* clock what datetime.now() gives it
MessageFromDict(data, uuid, clock) ==
    Message(IF "id" \in DOMAIN data THEN data["id"] ELSE uuid,
            data["device_id"],
            data["content"],
            Get(data, "message_type", "general"),
            IF "timestamp" \in DOMAIN data THEN FromIsoFormat(data["timestamp"])
            ELSE clock)

NoRoundTrip == [stage |-> "none"]

(***************************************************************************)
(* Initial states.                                                         *)
(***************************************************************************)
NoLast == [payload |-> NoPayload, outcome |-> "none", path |-> "none",
           policy_evaluated |-> FALSE, dispatched |-> FALSE]

NoPolicyCall == MqttMessage(0, PeerId, NoContent, "general", "now")

NoValidate == [called |-> FALSE, paths |-> {}, result |-> FALSE, warned |-> FALSE]

\* a directory holding a certificate in its validity period, a key and the CA
Enrolled == Disk(Cert(-1, ExpiryWarning + 1), KeyPem, Cert(-1, ExpiryWarning + 1))

\* an empty directory
NotEnrolled == Disk(Absent, Absent, Absent)

\* BitNetMqttDevice.__init__
Constructed ==
    /\ message_history = <<>>
    /\ workers = {}
    /\ running = FALSE
    /\ mqtt_client = 0
    /\ conn = [c \in Clients |-> "none"]
    /\ loops = {}
    /\ is_connected = FALSE
    /\ join_message_sent = FALSE
    /\ caller_pc = "stopped"
    /\ sent = <<>>
    /\ nrecv = 0
    /\ last = NoLast
    /\ accepted = <<>>
    /\ shadow = [history |-> <<>>, workers |-> {}]
    /\ acked = FALSE
    /\ stopped_once = FALSE
    /\ losses = 0
    /\ dropped = {}
    /\ last_start = NoStart
    /\ last_ensure = NoEnsure
    /\ last_register = NoRegister
    /\ last_validate = NoValidate
    /\ round_trip = NoRoundTrip
    /\ device_config = EmptyDict
    /\ credentials = NoCredentials
    /\ replies = <<>>

\* the device after start() returned True and the broker acknowledged the
\* connection (on_mqtt_connect(rc=0) has published the join message)
Serving ==
    /\ message_history = <<>>
    /\ workers = {}
    /\ running = TRUE
    /\ mqtt_client = 1
    /\ conn = [c \in Clients |-> IF c = 1 THEN "connected" ELSE "none"]
    /\ loops = {1}
    /\ is_connected = TRUE
    /\ join_message_sent = TRUE
    /\ caller_pc = "started"
    /\ sent = << "start", "joined" >>
    /\ nrecv = 0
    /\ last = NoLast
    /\ accepted = <<>>
    /\ shadow = [history |-> <<>>, workers |-> {}]
    /\ acked = TRUE
    /\ stopped_once = FALSE
    /\ losses = 0
    /\ dropped = {}
    /\ files = Enrolled
    /\ now = 0
    /\ last_start = [called |-> TRUE, outcome |-> "ok", result |-> TRUE,
                     steps |-> StartSteps(TRUE, "ok")]
    /\ last_ensure = [NoEnsure EXCEPT !.called = TRUE, !.before = Enrolled,
                                      !.result = TRUE]
    /\ last_register = NoRegister
    /\ last_validate = NoValidate
    /\ round_trip = NoRoundTrip
    /\ device_config = EmptyDict
    /\ credentials = [client_id |-> DefaultClientName, username |-> DefaultAuthName,
                      password |-> ""]
    /\ replies = <<>>

(***************************************************************************)
(* SpecPolicy: _should_respond applied to one message, for every           *)
(* configuration, message and random draw.                                 *)
(***************************************************************************)
\* the wire form of the drawn message (to_dict, less id and timestamp)
AsPayload(m) == Object(TRUE, m.device_id, TRUE, m.content, TRUE, m.message_type, "absent")

InitPolicy ==
    /\ Serving
    /\ config \in AllCriteria
    /\ pol_msg \in PolicyMessages
    /\ pol_draw \in Draws
    /\ pol_result = "unset"

\* _should_respond(pol_msg), random.random() returning pol_draw
ShouldRespondCall ==
    /\ pol_result = "unset"
    /\ pol_result' = IF ShouldRespondRaises(config, pol_msg) THEN "raise"
                     ELSE IF ShouldRespond(config, pol_msg, pol_draw) THEN "true"
                     ELSE "false"
    /\ UNCHANGED << config, recvVars, sessionVars, pol_msg, pol_draw,
                    dropped, last_start, idVars, auxVars >>

\* the same message arriving from the broker, with the same draw
Deliver ==
    /\ nrecv = 0
    /\ OnMqttMessage(AsPayload(pol_msg), pol_draw)

NextPolicy == ShouldRespondCall \/ Deliver

SpecPolicy == InitPolicy /\ [][NextPolicy]_vars

(***************************************************************************)
(* SpecRecv: the receive handler of a serving device, fed RecvMsgs         *)
(* payloads.                                                               *)
(***************************************************************************)
InitRecv ==
    /\ Serving
    /\ config \in RecvCriteria
    /\ pol_msg = NoPolicyCall /\ pol_draw = 0 /\ pol_result = "unset"

Receive ==
    /\ nrecv < RecvMsgs
    /\ \E p \in RecvPayloads, draw \in Draws : OnMqttMessage(p, draw)

NextRecv == Receive

SpecRecv == InitRecv /\ [][NextRecv]_vars

(***************************************************************************)
(* SpecRing: the receive handler fed more than HistoryCap payloads.  The   *)
(* environment varies the payload at the arrivals in RingVariedAt and      *)
(* sends RingFiller at the others.                                         *)
(***************************************************************************)
RingFiller == Object(TRUE, PeerId, TRUE, TextContent(<<"b">>), TRUE, "presence", "iso")

RingPayloads ==
    { RingFiller,
      Special("not_json"),
      Object(TRUE, PeerId, FALSE, NoContent, TRUE, "general", "iso"),
      Object(TRUE, PeerId, TRUE, TextContent(<<"b">>), FALSE, "", "bad"),
      Object(TRUE, SelfId, TRUE, TextContent(<<"b">>), FALSE, "", "absent"),
      Object(TRUE, PeerId, TRUE, TextContent(<<"A", "b">>), FALSE, "", "absent") }

RingVariedAt == {1, HistoryCap, HistoryCap + 1}

InitRing ==
    /\ Serving
    /\ config = EmptyDict
    /\ pol_msg = NoPolicyCall /\ pol_draw = 0 /\ pol_result = "unset"

ReceiveRing ==
    /\ nrecv < HistoryCap + RingExtra
    /\ \E p \in (IF nrecv + 1 \in RingVariedAt THEN RingPayloads ELSE {RingFiller}) :
          OnMqttMessage(p, 0)

NextRing == ReceiveRing

SpecRing == InitRing /\ [][NextRing]_vars

(***************************************************************************)
(* Claims about _should_respond (SpecPolicy).                              *)
(***************************************************************************)
Called == pol_result # "unset"

\* the allow-list in force: the configured one, {"general"} when none is
AllowList == IF "message_types" \in DOMAIN config THEN config["message_types"]
             ELSE {"general"}

Filters == IF "content_filters" \in DOMAIN config THEN config["content_filters"]
           ELSE <<>>

SameLetter(a, b) ==
    \/ a = b
    \/ {a, b} = {"a", "A"}
    \/ {a, b} = {"b", "B"}

\* text contains f as a substring, letter case disregarded
ContainsIgnoringCase(text, f) ==
    \E off \in 0..(Len(text) - Len(f)) :
        \A j \in 1..Len(f) : SameLetter(text[off + j], f[j])

MatchesSomeFilter ==
    /\ pol_msg.content.kind = "str"
    /\ \E i \in 1..Len(Filters) : ContainsIgnoringCase(pol_msg.content.text, Filters[i])

\* C1: a message whose device_id is the device's own is never approved,
\* whatever the configuration and the random draw, and the receive handler
\* starts no response worker for it.
C1_OwnMessageRejected ==
    pol_msg.device_id = SelfId =>
        /\ Called => pol_result = "false"
        /\ nrecv = 1 => (~last.dispatched /\ workers = {})

\* own message that every later rule would approve: allowed type, matching
\* filter, default_respond true
C1_Witness ==
    /\ pol_msg.device_id = SelfId
    /\ pol_result = "false"
    /\ nrecv = 1 /\ last.path = "append"
    /\ pol_msg.message_type \in AllowList
    /\ MatchesSomeFilter
    /\ Get(config, "default_respond", TRUE)

\* C2: a message whose message_type is not in the allow-list (default
\* {"general"}) is never approved, whether or not its content matches a
\* filter and whatever the draw.
C2_TypeNotAllowedRejected ==
    (Called /\ pol_msg.message_type \notin AllowList) => pol_result = "false"

\* no allow-list configured, a "presence" message of a peer that matches a filter
C2_Witness ==
    /\ pol_result = "false"
    /\ "message_types" \notin DOMAIN config
    /\ pol_msg.message_type = "presence"
    /\ pol_msg.device_id = PeerId
    /\ MatchesSomeFilter
    /\ Get(config, "default_respond", TRUE)
    /\ Get(config, "probability", DrawSteps) = DrawSteps

\* C3: a peer's message of an allowed type whose content contains a
\* configured filter (case-insensitively) is approved for every draw, every
\* probability and every default_respond.
C3_FilterMatchApproves ==
    ( /\ Called
      /\ pol_msg.device_id # SelfId
      /\ pol_msg.message_type \in AllowList
      /\ MatchesSomeFilter )
    => pol_result = "true"

\* approved by a filter that matches only when case is disregarded, with
\* probability 0.0, default_respond false and a draw above the probability
C3_Witness ==
    /\ pol_result = "true"
    /\ MatchesSomeFilter
    /\ ~(\E i \in 1..Len(Filters) : StrIn(Filters[i], pol_msg.content.text))
    /\ Get(config, "probability", DrawSteps) = 0
    /\ Get(config, "default_respond", TRUE) = FALSE
    /\ pol_draw > 0

\* C4: with probability 0.0, no content filters and default_respond true,
\* no message is approved, for any draw in [0, 1), 0.0 included.
C4_ZeroProbabilityRejects ==
    ( /\ Called
      /\ Get(config, "probability", DrawSteps) = 0
      /\ Len(Filters) = 0
      /\ Get(config, "default_respond", FALSE) = TRUE )
    => pol_result = "false"

(***************************************************************************)
(* Claims about on_mqtt_message.                                           *)
(***************************************************************************)
\* the last n elements of s (all of s when it has fewer)
LastN(s, n) == IF Len(s) <= n THEN s ELSE SubSeq(s, Len(s) - n + 1, Len(s))

\* C5 (SpecRing): after every receive-handler invocation message_history
\* is the last min(n, 100) accepted messages in arrival order, approved by
\* the policy or not.
C5_HistoryIsLastAccepted ==
    message_history = LastN(accepted, HistoryCap)

\* more than 100 accepted, the oldest evicted, an own message and a
\* dispatched one among those held
C5_Witness ==
    /\ Len(accepted) > HistoryCap
    /\ Len(message_history) = HistoryCap
    /\ message_history[1] # accepted[1]
    /\ \E i \in 1..Len(message_history) : message_history[i].device_id = SelfId
    /\ \E w \in workers : \E i \in 1..Len(message_history) : message_history[i] = w.message

LacksRequiredField(p) ==
    p.kind = "object" /\ (~p.has_device_id \/ ~p.has_content)

\* C6 (SpecRecv): for a JSON object lacking device_id or content the
\* handler returns normally, leaves message_history as it was, does not
\* evaluate the response policy and starts no worker.
C6_MissingFieldDropped ==
    [][ (nrecv' = nrecv + 1 /\ LacksRequiredField(last'.payload)) =>
          /\ message_history' = message_history
          /\ workers' = workers
          /\ last'.outcome = "returned"
          /\ ~last'.policy_evaluated
          /\ ~last'.dispatched ]_vars

\* such a payload handled while the history is not empty
C6_Witness ==
    /\ LacksRequiredField(last.payload)
    /\ last.outcome = "returned"
    /\ Len(message_history) > 0
    /\ workers # {}

\* C7 (SpecRecv): a malformed inbound message never leaves on_mqtt_message
\* as an exception, and history and dispatched responses are those of the
\* same sequence without the malformed messages.
C7_MalformedIsolated ==
    /\ last.outcome # "raised"
    /\ message_history = shadow.history
    /\ workers = shadow.workers

(***************************************************************************)
(* SpecSession: the session life cycle.  The caller starts a stopped       *)
(* device and may stop it at any time (also twice, also before any         *)
(* start); the broker acknowledges or refuses connections and connections  *)
(* are lost and re-established in any order.                               *)
(***************************************************************************)
ReasonCodes == {0, 7}

\* the enrollment service is down, or answers in full
FullSection == ("certificate" :> Cert(-1, ExpiryWarning + 1)) @@ ("privateKey" :> KeyPem)
                  @@ ("publicKey" :> Garbage)

SessionResponses ==
    { Response("raises", Body("not_json", EmptyDict), "raises", Garbage),
      Response("status_200", Body("section", FullSection), "status_200",
               Cert(-1, ExpiryWarning + 1)) }

SessionSaveFailures == {"none"}

InitSession ==
    /\ Constructed
    /\ files = NotEnrolled
    /\ now = 0
    /\ config = EmptyDict
    /\ pol_msg = NoPolicyCall /\ pol_draw = 0 /\ pol_result = "unset"

CallStart ==
    /\ caller_pc = "stopped"
    /\ \E outcome \in StartOutcomes, resp \in SessionResponses,
          fail_at \in SessionSaveFailures : Start(outcome, resp, fail_at)

ConnAck == \E c \in Clients, rc \in ReasonCodes : OnMqttConnect(c, rc)

ConnectionLost == \E c \in Clients, rc \in ReasonCodes : OnMqttDisconnect(c, rc)

LoopReconnects == \E c \in Clients : Reconnect(c)

CallSendManualMessage == \E m \in ManualMessages : SendManualMessage(m)

NextSession ==
    \/ CallStart
    \/ StopBegin
    \/ StopTeardown
    \/ ConnAck
    \/ ConnectionLost
    \/ LoopReconnects
    \/ CallSendManualMessage

SpecSession == InitSession /\ [][NextSession]_vars

(***************************************************************************)
(* Claims about the session (SpecSession).                                 *)
(***************************************************************************)
Positions(kind) == { i \in 1..Len(sent) : sent[i] = kind }

\* the index of the mark of the last start() that returned True (0: none)
LastStart == IF Positions("start") = {} THEN 0
             ELSE CHOOSE i \in Positions("start") : \A j \in Positions("start") : j <= i

JoinsSinceStart == Cardinality({ i \in Positions("joined") : i > LastStart })

\* C8: from a start() to the next one, hence to the next stop(), at most
\* one "joined" message is published, however often the connection is
\* lost and acknowledged again.
C8_AtMostOneJoinPerStart == JoinsSinceStart <= 1

\* connected again after MaxLosses losses, the join announced once
C8_Witness ==
    /\ caller_pc = "started"
    /\ losses = MaxLosses
    /\ mqtt_client # 0 /\ conn[mqtt_client] = "connected"
    /\ is_connected
    /\ JoinsSinceStart = 1

\* C9: stop() leaves join_message_sent false, and in a session started
\* after a stop() the first acknowledged connection publishes exactly one
\* "joined" message.
C9_RejoinAfterRestart ==
    /\ caller_pc = "stopped" => ~join_message_sent
    /\ (stopped_once /\ caller_pc = "started" /\ acked) =>
          (JoinsSinceStart = 1 /\ join_message_sent)

\* a second session, after one that announced itself and said goodbye
C9_Witness ==
    /\ stopped_once /\ caller_pc = "started" /\ acked
    /\ JoinsSinceStart = 1
    /\ Cardinality(Positions("joined")) = 2
    /\ Positions("leaving") # {}
    /\ \E i \in Positions("leaving") : i < LastStart

\* C10 as stated: whenever the session is Disconnected, after a lost
\* connection as after stop(), join_message_sent is false.
C10_DisconnectedImpliesFlagFalse == ~is_connected => ~join_message_sent

\* C10 as amended: a connection-lost event sets is_connected false and
\* leaves join_message_sent as it was; the flag turns false only in stop(),
\* and is false whenever stop() has returned.
C10_FlagResetOnlyByStop ==
    [][ /\ (losses' = losses + 1) =>
              (~is_connected' /\ join_message_sent' = join_message_sent)
        /\ (join_message_sent /\ ~join_message_sent') => caller_pc' = "stopped"
        /\ caller_pc' = "stopped" => ~join_message_sent' ]_vars

\* the connection of an announced session is lost: Disconnected, flag true
C10_Witness ==
    /\ caller_pc = "started"
    /\ losses > 0
    /\ conn[mqtt_client] = "lost"
    /\ ~is_connected
    /\ join_message_sent

\* C11: a message reaches the transport only in a publish_message call that
\* finds a client that reports itself connected; a message whose call found
\* no client or a disconnected one is never published, neither at the call
\* nor later, whatever happens to the connection afterwards.
C11_PublishOnlyWhenConnected ==
    [][ /\ \A m \in dropped' : \A i \in 1..Len(sent') : sent'[i] # m
        /\ (sent' # sent /\ sent'[Len(sent')] # "start")
              => /\ sent' = Append(sent, sent'[Len(sent')])
                 /\ mqtt_client' # 0
                 /\ conn'[mqtt_client'] = "connected" ]_vars

\* one manual message was dropped while the connection was down, the other
\* was published after the loop thread had reconnected
C11_Witness ==
    /\ "manual-1" \in dropped
    /\ losses > 0
    /\ mqtt_client # 0 /\ conn[mqtt_client] = "connected"
    /\ \E i \in 1..Len(sent) : sent[i] = "manual-2"
    /\ \A i \in 1..Len(sent) : sent[i] # "manual-1"

\* C12: a stop() called while the transport is connected publishes exactly
\* one "leaving" message, with the loop thread still running and the
\* transport still connected; a stop() called while it is not connected
\* publishes nothing; when stop() returns, the loop thread is stopped, the
\* transport closed, and running, is_connected and join_message_sent are
\* all false.
C12_StopSaysGoodbyeFirst ==
    [][ /\ (caller_pc # "stopping" /\ caller_pc' = "stopping")
              => /\ conn[mqtt_client] = "connected"
                    => /\ sent' = Append(sent, "leaving")
                       /\ mqtt_client \in loops'
                       /\ conn'[mqtt_client] = "connected"
                 /\ conn[mqtt_client] # "connected" => sent' = sent
                 /\ ~running'
        /\ (sent' # sent /\ sent'[Len(sent')] = "leaving")
              => caller_pc # "stopping" /\ caller_pc' = "stopping"
        /\ (caller_pc = "stopping" /\ caller_pc' # "stopping")
              => /\ sent' = sent
                 /\ mqtt_client \notin loops'
                 /\ conn'[mqtt_client] = "closed"
                 /\ caller_pc' = "stopped"
                 /\ ~running' /\ ~is_connected' /\ ~join_message_sent'
        /\ (caller_pc # "stopping" /\ ~stopped_once /\ stopped_once')
              => /\ sent' = sent
                 /\ ~running' /\ ~is_connected' /\ ~join_message_sent' ]_vars

\* a stop() of a connected device has returned: the leaving message is the
\* last one published, after the join message
C12_Witness ==
    /\ caller_pc = "stopped"
    /\ stopped_once
    /\ mqtt_client # 0 /\ conn[mqtt_client] = "closed"
    /\ Len(sent) >= 3
    /\ sent[Len(sent)] = "leaving"
    /\ sent[Len(sent) - 1] = "joined"
    /\ ~running /\ ~is_connected /\ ~join_message_sent

\* a step of a start() call
StartReturns == last_start' # last_start \/ mqtt_client' # mqtt_client

StepReached(record, step) == \E i \in 1..Len(record.steps) : record.steps[i] = step

\* C13: start() fails fast.  When ensure_certificates fails, the
\* inference-engine check fails, the TLS configuration raises or connect()
\* raises, start() returns False, no later step of the startup is attempted
\* (no client is built and no connect attempted after a failed identity or
\* inference-engine check), no loop thread is started and running stays
\* False.
C13_StartFailsFast ==
    [][ StartReturns =>
          LET o == last_start'.outcome
          IN  /\ (o = "certificates_failed") <=> ~last_ensure'.result
              /\ o # "ok"
                    => /\ ~last_start'.result
                       /\ loops' = loops
                       /\ ~running /\ ~running'
                       /\ ~StepReached(last_start', "loop_start")
                       /\ \A c \in Clients : conn'[c] = "connecting" => conn[c] = "connecting"
              /\ o = "certificates_failed"
                    => ~StepReached(last_start', "validate_setup")
              /\ o \in {"certificates_failed", "bitnet_failed"}
                    => /\ mqtt_client' = mqtt_client
                       /\ conn' = conn
                       /\ ~StepReached(last_start', "client")
                       /\ ~StepReached(last_start', "connect")
              /\ o = "tls_failed" => ~StepReached(last_start', "connect") ]_vars

\* after a session that was started and stopped, a start() has failed at
\* the inference-engine check: the closed client of the old session is
\* still the device's client
C13_Witness ==
    /\ last_start.called
    /\ last_start.outcome = "bitnet_failed"
    /\ ~last_start.result
    /\ stopped_once
    /\ mqtt_client # 0 /\ conn[mqtt_client] = "closed"
    /\ loops = {}
    /\ ~running

(***************************************************************************)
(* SpecRestart: the session when start() is also called on a device that   *)
(* was started and not stopped.                                            *)
(***************************************************************************)
CallStartAnytime ==
    /\ caller_pc \in {"stopped", "started"}
    /\ \E outcome \in StartOutcomes, resp \in SessionResponses,
          fail_at \in SessionSaveFailures : Start(outcome, resp, fail_at)

NextRestart ==
    \/ CallStartAnytime
    \/ StopBegin
    \/ StopTeardown
    \/ ConnAck
    \/ ConnectionLost
    \/ LoopReconnects

SpecRestart == InitSession /\ [][NextRestart]_vars

\* the clients whose loop thread runs and holds, opens or will reopen a
\* connection to the broker
LiveConnections == { c \in loops : conn[c] \in {"connecting", "connected", "lost"} }

\* C14: whatever the sequence of start() and stop() calls, at most one
\* client of the device has a running loop thread and a broker connection.
C14_AtMostOneConnection == Cardinality(LiveConnections) <= 1

(***************************************************************************)
(* SpecIdentity: ensure_certificates called from main() ("validate" and    *)
(* "register"), any number of times, on every directory IdentityDisks and  *)
(* against every answer IdentityResponses of the enrollment service.       *)
(***************************************************************************)
ValidCert == Cert(-1, ExpiryWarning + 1)
ExpiringCert == Cert(-1, 1)
ExpiredCert == Cert(-1, 0)

IdentityDisks ==
    { Disk(c, k, a) : c \in {Absent, Garbage, ValidCert, ExpiringCert, ExpiredCert},
                      k \in {Absent, KeyPem}, a \in {Absent, ValidCert} }

Sections ==
    { c @@ k @@ ("publicKey" :> Garbage) :
         c \in OptKey("certificate", {ValidCert, ExpiredCert, EmptyText}),
         k \in OptKey("privateKey", {KeyPem}) }

\* the sections that have both a certificate and a privateKey field
FullSections == { sec \in Sections : {"certificate", "privateKey"} \subseteq DOMAIN sec }

NoBody == Body("not_json", EmptyDict)

IdentityResponses ==
    { Response(post, NoBody, "raises", Garbage) : post \in {"raises", "status_500"} }
    \cup { Response("status_200", Body(kind, EmptyDict), "raises", Garbage) :
              kind \in {"not_json", "no_registration", "no_certificate",
                        "certificate_not_object"} }
    \cup { Response("status_200", Body("section", sec), "status_200", ValidCert) :
              sec \in Sections }
    \cup { Response("status_200", Body("section", sec), "raises", Garbage) :
              sec \in FullSections }
    \cup { Response("status_200", Body("section", sec), "status_404", Garbage) :
              sec \in FullSections }

InitIdentity ==
    /\ Constructed
    /\ config = EmptyDict
    /\ pol_msg = NoPolicyCall /\ pol_draw = 0 /\ pol_result = "unset"
    /\ files \in IdentityDisks
    /\ now = 0

EnsureCall ==
    /\ \E resp \in IdentityResponses, fail_at \in SaveFailures :
          EnsureStep(resp, fail_at)
    /\ UNCHANGED << config, recvVars, sessionVars, polVars, dropped, last_start,
                    now, last_validate, round_trip, credentials, replies >>

NextIdentity == EnsureCall

SpecIdentity == InitIdentity /\ [][NextIdentity]_vars

(***************************************************************************)
(* Claims about the device identity (SpecIdentity).                        *)
(***************************************************************************)
\* the directory held all three files and validate_certificates accepted it
Provisioned(fs) ==
    /\ \A k \in CertPaths : fs[k].pem # "absent"
    /\ ValidateCertificates(CertPaths, fs, now).result

\* C15: when the certificate, key and CA files exist and validation
\* succeeds, ensure_certificates returns True without any request to the
\* enrollment service and without writing a file; a call that follows such
\* a call does the same.
C15_ProvisionedNeedsNoEnrollment ==
    /\ (last_ensure.called /\ Provisioned(last_ensure.before))
          => /\ last_ensure.result
             /\ last_ensure.registrations = 0
             /\ last_ensure.requests = 0
             /\ last_ensure.writes = {}
             /\ files = last_ensure.before
    /\ last_ensure.after_hit
          => /\ last_ensure.result
             /\ last_ensure.requests = 0
             /\ last_ensure.writes = {}
             /\ files = last_ensure.before

\* the second of two calls on a provisioned directory
C15_Witness ==
    /\ last_ensure.called
    /\ last_ensure.after_hit
    /\ Provisioned(last_ensure.before)
    /\ last_ensure.result
    /\ last_ensure.requests = 0
    /\ files = last_ensure.before

\* save_certificates was asked for a write that raised
SaveFailed(bundle, fail_at) ==
    \/ fail_at = "cert" /\ "client_cert" \in DOMAIN bundle.data
    \/ fail_at \in {"key", "chmod"} /\ "client_key" \in DOMAIN bundle.data
    \/ fail_at = "ca" /\ "ca_cert" \in DOMAIN bundle.data

\* every entry of the bundle is in its file
Persisted(bundle, fs) ==
    /\ "client_cert" \in DOMAIN bundle.data => fs.cert = bundle.data["client_cert"]
    /\ "client_key" \in DOMAIN bundle.data => fs.key = bundle.data["client_key"]
    /\ "ca_cert" \in DOMAIN bundle.data => fs.ca = bundle.data["ca_cert"]

\* C16: when a file is missing or validation fails, ensure_certificates
\* calls register_device exactly once; it returns True only if
\* register_device returned a bundle and the bundle was written to the
\* directory, and False if register_device returned None or a write of
\* save_certificates raised.
C16_EnrollsOnceOrFails ==
    (last_ensure.called /\ ~Provisioned(last_ensure.before))
       => /\ last_ensure.registrations = 1
          /\ last_ensure.result
                => /\ ~last_ensure.bundle.none
                   /\ Persisted(last_ensure.bundle, files)
          /\ last_ensure.bundle.none
                => ~last_ensure.result /\ last_ensure.writes = {}
          /\ SaveFailed(last_ensure.bundle, last_ensure.fail_at)
                => ~last_ensure.result

\* the CA file could not be written: the call returned False after one
\* registration, leaving the new certificate and key in the directory
C16_Witness ==
    /\ last_ensure.called
    /\ ~Provisioned(last_ensure.before)
    /\ last_ensure.registrations = 1
    /\ ~last_ensure.bundle.none
    /\ last_ensure.fail_at = "ca"
    /\ "ca_cert" \in DOMAIN last_ensure.bundle.data
    /\ ~last_ensure.result
    /\ last_ensure.writes = {"cert", "key"}

\* the answer is not a 200 answer with a registration section and a
\* certificate section that has a certificate and a privateKey field
Malformed(resp) ==
    \/ resp.post # "status_200"
    \/ resp.body.kind # "section"
    \/ "certificate" \notin DOMAIN resp.body.section
    \/ "privateKey" \notin DOMAIN resp.body.section

\* C17: register_device returns None for every answer that is not a 200,
\* every network failure and every malformed 200 body; a bundle it returns
\* holds a non-empty client certificate and a non-empty private key.
C17_BundleOrNone ==
    last_register.called
       => /\ Malformed(last_register.resp) => last_register.bundle.none
          /\ ~last_register.bundle.none
                => /\ last_register.bundle.data["client_cert"].pem # "empty"
                   /\ last_register.bundle.data["client_key"].pem # "empty"

\* C18: a 200 answer with a full certificate section yields a bundle with
\* the client certificate and the key of the answer, and without a CA
\* entry, when the request for the CA certificate raises or is not
\* answered with 200.
C18_BundleWithoutCa ==
    (/\ last_register.called
     /\ ~Malformed(last_register.resp)
     /\ last_register.resp.ca.outcome # "status_200")
       => /\ ~last_register.bundle.none
          /\ last_register.gets = 1
          /\ last_register.bundle.data["client_cert"]
                = last_register.resp.body.section["certificate"]
          /\ last_register.bundle.data["client_key"]
                = last_register.resp.body.section["privateKey"]
          /\ "ca_cert" \notin DOMAIN last_register.bundle.data

\* the CA request was answered with 404; ensure_certificates stored the
\* certificate and the key and returned True
C18_Witness ==
    /\ last_register.called
    /\ ~Malformed(last_register.resp)
    /\ last_register.resp.ca.outcome = "status_404"
    /\ ~last_register.bundle.none
    /\ "ca_cert" \notin DOMAIN last_register.bundle.data
    /\ last_ensure.result
    /\ last_ensure.writes = {"cert", "key"}

(***************************************************************************)
(* SpecValidate: validate_certificates applied once to every directory     *)
(* ValidateDisks, at every clock reading within a second, for every set    *)
(* of keys of cert_files.                                                  *)
(***************************************************************************)
ValidityTimes == { -(ExpiryWarning + 1), -1, 0, 1, ExpiryWarning, ExpiryWarning + 1 }

ValidateDisks ==
    { Disk(c, k, a) :
         c \in {Absent, Unreadable, EmptyText, Garbage, KeyPem}
                  \cup { Cert(nb, na) : nb \in ValidityTimes, na \in ValidityTimes },
         k \in {Absent, Unreadable, Garbage, KeyPem},
         a \in {Absent, Unreadable, Garbage, ValidCert} }

InitValidate ==
    /\ Constructed
    /\ config = EmptyDict
    /\ pol_msg = NoPolicyCall /\ pol_draw = 0 /\ pol_result = "unset"
    /\ files \in ValidateDisks
    /\ now \in 0..(TicksPerSecond - 1)

ValidateCall ==
    /\ ~last_validate.called
    /\ \E paths \in SUBSET CertPaths :
          LET v == ValidateCertificates(paths, files, now)
          IN  last_validate' = [called |-> TRUE, paths |-> paths,
                                result |-> v.result, warned |-> v.warned]
    /\ UNCHANGED << config, recvVars, sessionVars, polVars, dropped, last_start,
                    files, now, last_ensure, last_register, auxVars >>

NextValidate == ValidateCall

SpecValidate == InitValidate /\ [][NextValidate]_vars

(***************************************************************************)
(* Claims about validate_certificates (SpecValidate).                      *)
(***************************************************************************)
\* the artifact k is missing from the given paths, is not there, cannot be
\* read or does not parse
ArtifactFails(k) ==
    \/ k \notin last_validate.paths
    \/ files[k].pem \in {"absent", "unreadable"}
    \/ files[k].pem # (IF k = "key" THEN "key" ELSE "cert")

\* C19: validate_certificates returns False whenever one of the three
\* artifacts (client certificate, private key, CA certificate) is missing
\* from the paths, missing from the directory, unreadable or unparseable.
C19_FailsClosed ==
    (last_validate.called /\ \E k \in CertPaths : ArtifactFails(k))
       => ~last_validate.result

\* the clock in whole seconds
NowSeconds == now \div TicksPerSecond

\* C20: for a client certificate that parses, validate_certificates
\* returns True exactly when notBefore <= now < notAfter, in whole seconds:
\* False once notAfter is reached, False before notBefore, True up to the
\* last second before notAfter, however close the expiry is.
C20_ValidityWindow ==
    (/\ last_validate.called
     /\ "cert" \in last_validate.paths
     /\ files.cert.pem = "cert")
       => (last_validate.result
             <=> /\ files.cert.not_valid_before <= NowSeconds
                 /\ NowSeconds < files.cert.not_valid_after)

\* a certificate that expires at the next whole second is accepted, with
\* the warning of the 7-day window
C20_Witness ==
    /\ last_validate.called
    /\ files.cert.pem = "cert"
    /\ files.cert.not_valid_after = NowSeconds + 1
    /\ now > NowSeconds * TicksPerSecond
    /\ last_validate.result
    /\ last_validate.warned

(***************************************************************************)
(* SpecRoundTrip: a message built locally (MqttMessage(...)) or decoded    *)
(* from a payload (from_dict), then to_dict, then from_dict of the result. *)
(***************************************************************************)
\* readings of datetime.now(): naive, with and without microseconds
Clocks == { DateTime(10, 0, FALSE, 0), DateTime(10, 5, FALSE, 0),
            DateTime(10, 500000, FALSE, 0), DateTime(11, 123456, FALSE, 0) }

\* timestamps other devices send
WireTimestamps == { IsoText(10, <<>>, "Z"), IsoText(10, <<1, 2, 3>>, "+02:00"),
                    IsoText(10, <<0, 0, 0, 0, 0, 5>>, ""),
                    IsoText(12, <<9, 9, 9, 9, 9, 9>>, "-05:00") }

WirePayloads ==
    { ("device_id" :> dv) @@ ("content" :> c) @@ t @@ ts @@ id :
         dv \in DeviceIds, c \in {TextContent(<<"A", "b">>), ListContent},
         t \in OptKey("message_type", {"presence"}),
         ts \in OptKey("timestamp", WireTimestamps),
         id \in OptKey("id", {"uuid-wire"}) }

InitRoundTrip ==
    /\ Constructed
    /\ files = NotEnrolled
    /\ now = 0
    /\ config = EmptyDict
    /\ pol_msg = NoPolicyCall /\ pol_draw = 0 /\ pol_result = "unset"

roundTripRest == << config, recvVars, sessionVars, polVars, dropped, last_start,
                    idVars, device_config, credentials, replies >>

\* MqttMessage(device_id, content, message_type=...)
BuildMessage ==
    /\ round_trip.stage = "none"
    /\ \E dv \in DeviceIds, c \in Contents, t \in {"general", "response"},
          clock \in Clocks :
          round_trip' = [stage |-> "message",
                         message |-> Message("uuid-1", dv, c, t, clock)]
    /\ UNCHANGED roundTripRest

\* MqttMessage.from_dict(payload) in on_mqtt_message
DecodeWire ==
    /\ round_trip.stage = "none"
    /\ \E data \in WirePayloads, clock \in Clocks :
          round_trip' = [stage |-> "message",
                         message |-> MessageFromDict(data, "uuid-1", clock)]
    /\ UNCHANGED roundTripRest

\* m.to_dict()
Encode ==
    /\ round_trip.stage = "message"
    /\ round_trip' = [stage |-> "encoded", message |-> round_trip.message,
                      wire |-> ToDict(round_trip.message)]
    /\ UNCHANGED roundTripRest

\* MqttMessage.from_dict(m.to_dict()): the new object gets another uuid and
\* a later clock reading before from_dict overwrites them
DecodeBack ==
    /\ round_trip.stage = "encoded"
    /\ round_trip' = [stage |-> "decoded", message |-> round_trip.message,
                      wire |-> round_trip.wire,
                      back |-> MessageFromDict(round_trip.wire, "uuid-2",
                                               DateTime(99, 7, FALSE, 0))]
    /\ UNCHANGED roundTripRest

NextRoundTrip == BuildMessage \/ DecodeWire \/ Encode \/ DecodeBack

SpecRoundTrip == InitRoundTrip /\ [][NextRoundTrip]_vars

\* equal datetimes: both naive with the same reading, or both aware and the
\* same instant
SameTime(a, b) ==
    /\ a.aware = b.aware
    /\ a.microsecond = b.microsecond
    /\ a.seconds - 60 * a.offset = b.seconds - 60 * b.offset

\* C21: from_dict(m.to_dict()) has the id, device_id, content and
\* message_type of m, and a timestamp equal to m's.
C21_RoundTrip ==
    round_trip.stage = "decoded"
       => /\ round_trip.back.id = round_trip.message.id
          /\ round_trip.back.device_id = round_trip.message.device_id
          /\ round_trip.back.content = round_trip.message.content
          /\ round_trip.back.message_type = round_trip.message.message_type
          /\ SameTime(round_trip.back.timestamp, round_trip.message.timestamp)

\* the round trip of a message received with a "+02:00" timestamp that has
\* a three-digit fraction
C21_Witness ==
    /\ round_trip.stage = "decoded"
    /\ round_trip.message.timestamp.aware
    /\ round_trip.message.timestamp.offset = 120
    /\ round_trip.message.timestamp.microsecond = 123000
    /\ round_trip.wire["timestamp"].fraction = << 1, 2, 3, 0, 0, 0 >>
    /\ round_trip.back = round_trip.message

(***************************************************************************)
(* _handle_response.response_worker: the steps of one worker thread.  A    *)
(* worker is at "started" (the thread exists), "inference" (the prompt is  *)
(* built, generate_response runs), "pacing" (the reply is built, the       *)
(* thread sleeps response_delay) or "done".                                *)
(***************************************************************************)
\* what _generate_prompt reads: message_history[:-1], and of it the last 3;
\* the messages are named by their arrival numbers
PromptContext(hist) ==
    LET context == SubSeq(hist, 1, Len(hist) - 1)
        recent_messages == LastN(context, 3)
    IN  [i \in 1..Len(recent_messages) |-> recent_messages[i].seq]

\* what generate_response does: "text" (exit code 0 and an output), "empty"
\* (exit code 0 and a blank output), "unavailable" (validate_setup fails),
\* "timeout", "nonzero" (exit code not 0), "raises" (subprocess.run raises
\* something else)
InferenceOutcomes == {"text", "empty", "unavailable", "timeout", "nonzero", "raises"}

\* the outcomes for which generate_response returns None
InferenceFailures == {"unavailable", "timeout", "nonzero", "raises"}

workerRest == << config, running, mqtt_client, conn, loops, is_connected,
                 join_message_sent, caller_pc, acked, stopped_once, losses,
                 polVars, dropped, last_start, idVars, round_trip,
                 device_config, credentials,
                 message_history, nrecv, last, accepted, shadow >>

\* the thread starts running: it builds the prompt from the history as it
\* is now and calls generate_response
WorkerPrompt(w) ==
    /\ w \in workers
    /\ w.pc = "started"
    /\ workers' = (workers \ {w})
                  \cup { [message |-> w.message, pc |-> "inference",
                          context |-> PromptContext(message_history),
                          inference |-> "running"] }
    /\ UNCHANGED << sent, replies >>
    /\ UNCHANGED workerRest

\* a worker that builds a reply whatever generate_response returned
WorkerInference_AlwaysReplies(w, outcome) ==
    /\ w \in workers
    /\ w.pc = "inference"
    /\ workers' = (workers \ {w})
                  \cup { [w EXCEPT !.pc = "pacing", !.inference = outcome] }
    /\ UNCHANGED << sent, replies >>
    /\ UNCHANGED workerRest

\* generate_response returns: a text, or None
WorkerInference(w, outcome) ==
    /\ w \in workers
    /\ w.pc = "inference"
    /\ workers' = (workers \ {w})
                  \cup { [w EXCEPT !.pc = IF outcome = "text" THEN "pacing" ELSE "done",
                                   !.inference = outcome] }
    /\ UNCHANGED << sent, replies >>
    /\ UNCHANGED workerRest

\* a worker that goes back to sleep after publishing
WorkerPublish_Again(w) ==
    /\ w \in workers
    /\ w.pc = "pacing"
    /\ workers' = workers
    /\ sent' = PublishMessage(sent, mqtt_client, conn, "response")
    /\ replies' = IF sent' # sent
                  THEN Append(replies, [to |-> w.message.seq, device_id |-> SelfId,
                                        message_type |-> "response",
                                        inference |-> w.inference])
                  ELSE replies
    /\ UNCHANGED workerRest

\* the sleep ends: publish_message(response_msg), and the thread ends
WorkerPublish(w) ==
    /\ w \in workers
    /\ w.pc = "pacing"
    /\ workers' = (workers \ {w}) \cup { [w EXCEPT !.pc = "done"] }
    /\ sent' = PublishMessage(sent, mqtt_client, conn, "response")
    /\ replies' = IF sent' # sent
                  THEN Append(replies, [to |-> w.message.seq, device_id |-> SelfId,
                                        message_type |-> "response",
                                        inference |-> w.inference])
                  ELSE replies
    /\ UNCHANGED workerRest

(***************************************************************************)
(* SpecWorkers: a serving device receives WorkerMsgs payloads while the    *)
(* workers it started run.                                                 *)
(***************************************************************************)
WorkerPayloads ==
    { Object(TRUE, PeerId, TRUE, TextContent(<<"b">>), FALSE, "", "absent"),
      Object(TRUE, PeerId, TRUE, TextContent(<<"b">>), TRUE, "presence", "iso") }

InitWorkers ==
    /\ Serving
    /\ config = EmptyDict
    /\ pol_msg = NoPolicyCall /\ pol_draw = 0 /\ pol_result = "unset"

ReceiveWhileWorking ==
    /\ nrecv < WorkerMsgs
    /\ \E p \in WorkerPayloads : OnMqttMessage(p, 0)

WorkerBuildsPrompt == \E w \in workers : WorkerPrompt(w)

WorkerInfers == \E w \in workers, outcome \in InferenceOutcomes : WorkerInference(w, outcome)

WorkerPublishes == \E w \in workers : WorkerPublish(w)

NextWorkers ==
    \/ ReceiveWhileWorking
    \/ WorkerBuildsPrompt
    \/ WorkerInfers
    \/ WorkerPublishes

SpecWorkers == InitWorkers /\ [][NextWorkers]_vars

(***************************************************************************)
(* Claims about the response workers.                                      *)
(***************************************************************************)
\* arrival numbers of the up-to-3 accepted messages that came before the
\* message numbered seq
PrecedingThree(seq) ==
    LET before == SelectSeq(accepted, LAMBDA m : m.seq < seq)
        recent == LastN(before, 3)
    IN  [i \in 1..Len(recent) |-> recent[i].seq]

\* C22: for every dispatched response, under every interleaving of the
\* receive path with the worker, the prompt context is exactly the up-to-3
\* history entries that immediately precede the triggering message; the
\* triggering message and later messages never appear in it.
C22_ContextPrecedesTrigger ==
    \A w \in workers :
        w.pc # "started" => w.context = PrecedingThree(w.message.seq)

\* C23: when the inference times out, exits non-zero, raises or is
\* unavailable, the dispatch publishes no reply, the worker ends without
\* the failure reaching anything else, and the other workers, the history
\* and the connection are as they were.
C23_InferenceFailureContained ==
    [][ /\ \A w \in workers, v \in workers' :
             ( /\ w.pc = "inference" /\ v.message = w.message
               /\ v.inference \in InferenceFailures )
             => /\ v.pc = "done"
                /\ workers' \ {v} = workers \ {w}
                /\ sent' = sent /\ replies' = replies
                /\ message_history' = message_history
                /\ UNCHANGED << running, mqtt_client, conn, loops, is_connected >>
        /\ \A v \in workers' :
             (v.pc # "started" /\ v.inference \in InferenceFailures)
             => \A i \in 1..Len(replies') : replies'[i].to # v.message.seq
      ]_vars

\* a worker failed and ended, a later message was received and answered
C23_Witness ==
    \E w \in workers :
        /\ w.pc = "done" /\ w.inference \in InferenceFailures
        /\ \E i \in 1..Len(replies) : replies[i].to > w.message.seq

InFlight(w) == w.pc \in {"inference", "pacing"}

\* C26: the receive handler returns after starting the worker: a receive
\* step leaves every running worker where it is, publishes nothing, leaves a
\* new worker at its start; it can be taken in every state, whatever the
\* workers are doing, and several workers can be in flight.
C26_ReceiveNeverWaits ==
    [][ /\ nrecv' # nrecv
           => /\ workers \subseteq workers'
              /\ \A v \in workers' \ workers : v.pc = "started"
              /\ sent' = sent /\ replies' = replies
        /\ (nrecv' < WorkerMsgs) => (ENABLED ReceiveWhileWorking)'
      ]_vars

\* two workers are in flight, and a message was appended to the history
\* after both had built their prompts
C26_Witness ==
    \E w1, w2 \in workers :
        /\ w1 # w2 /\ InFlight(w1) /\ InFlight(w2)
        /\ Len(w1.context) + 1 < Len(message_history)
        /\ Len(w2.context) + 1 < Len(message_history)

\* C27: each approved message gets at most one reply; every reply is from
\* this device, of type "response", published by a worker that had a
\* successful inference result and then slept the pacing delay; no reply is
\* published for a message the policy rejected.
C27_OneReplyAfterInferenceAndDelay ==
    [][ /\ replies' # replies
           => \E w \in workers :
                /\ w.pc = "pacing" /\ w.inference = "text"
                /\ replies' = Append(replies, [to |-> w.message.seq, device_id |-> SelfId,
                                               message_type |-> "response",
                                               inference |-> "text"])
        /\ \A i, j \in 1..Len(replies') :
             replies'[i].to = replies'[j].to => i = j
        /\ \A i \in 1..Len(replies') :
             \E w \in workers' : w.message.seq = replies'[i].to
      ]_vars

\* two messages were answered and a third, rejected by the policy, was not
C27_Witness ==
    /\ Len(replies) = 2
    /\ \E i \in 1..Len(accepted) :
         /\ \A w \in workers : w.message.seq # accepted[i].seq
         /\ \A j \in 1..Len(replies) : replies[j].to # accepted[i].seq

(***************************************************************************)
(* Claims about the identity used for the connection.                      *)
(***************************************************************************)
\* the last start() enrolled the device and went on to build its client
EnrolledInThisStart ==
    /\ last_start.called
    /\ StepReached(last_start, "client")
    /\ last_ensure.registrations > 0
    /\ last_register.names_set

\* C24: when start() had to enroll the device, the client id and the
\* username of the connection are the clientName and authenticationName
\* the service returned, with an empty password, not local defaults.
C24_EnrolledNamesUsed ==
    EnrolledInThisStart
    => /\ credentials.client_id = ServiceNames["client_name"]
       /\ credentials.username = ServiceNames["auth_name"]
       /\ credentials.password = ""

(***************************************************************************)
(* Claims about the fall-through of _should_respond.                       *)
(***************************************************************************)
\* a peer's text message of an allowed type that no configured filter matches
FallsThrough ==
    /\ pol_msg.device_id # SelfId
    /\ pol_msg.message_type \in AllowList
    /\ pol_msg.content.kind = "str"
    /\ ~MatchesSomeFilter

\* what draw and configuration alone decide
GateThenDefault ==
    IF pol_draw > Get(config, "probability", DrawSteps) THEN "false"
    ELSE IF Get(config, "default_respond", TRUE) THEN "true"
    ELSE "false"

\* C25: for a peer's message of an allowed type whose content matches no
\* filter, the filter list empty or not, _should_respond returns false when
\* the draw exceeds the probability and default_respond otherwise, and the
\* call changes neither history, connection flags nor configuration.
C25_FallThroughIsGateThenDefault ==
    [][ (pol_result = "unset" /\ pol_result' # "unset" /\ FallsThrough)
        => /\ pol_result' = GateThenDefault
           /\ UNCHANGED << config, message_history, workers, is_connected,
                           join_message_sent, running, mqtt_client, conn >>
      ]_vars

\* filters are configured, none matches, the draw passes the gate and the
\* call returns default_respond, here true
C25_Witness ==
    /\ Called
    /\ FallsThrough
    /\ Len(Filters) > 0
    /\ Get(config, "probability", DrawSteps) < DrawSteps
    /\ pol_draw <= Get(config, "probability", DrawSteps)
    /\ pol_result = "true"

(***************************************************************************)
(* Claims about what a successful ensure_certificates leaves behind.       *)
(***************************************************************************)
\* ensure_certificates called again at once: same files, same clock, the
\* service answering as it did to the last registration
CalledAgain == EnsureCertificates(files, now, last_register.resp, "none")

\* C28: whenever ensure_certificates returns true, a call that follows at
\* once, the clock and the service unchanged, returns true too and sends no
\* request, also when the first call enrolled and the CA fetch failed.
C28_SuccessIsStable ==
    (last_ensure.called /\ last_ensure.result)
    => /\ CalledAgain.result
       /\ CalledAgain.reg.posts = 0
       /\ CalledAgain.reg.gets = 0

\* C29: whenever ensure_certificates returns true, the certificate and key
\* files exist and the certificate passes validate_certificates at that
\* moment; a fresh bundle whose certificate is empty, unparseable or
\* expired never yields true.
C29_SuccessMeansValidFiles ==
    (last_ensure.called /\ last_ensure.result)
    => /\ Exists(files.cert)
       /\ Exists(files.key)
       /\ ValidateCertificates(CertPaths, files, now).result

\* C30: whenever register_device returns None, the client_name and
\* auth_name entries of the device configuration are what they were before
\* the call, also for a 200 answer with a registration section and no
\* certificate section.
C30_FailedRegistrationLeavesNames ==
    ( /\ last_register.called
      /\ last_register.bundle.none
      /\ last_ensure.registrations > 0 )
    => device_config = last_register.names_before

(***************************************************************************)
(* SpecShutdown: a serving device receives messages, its workers run, and  *)
(* the caller calls stop() at any moment; the sleep of stop() lies between *)
(* StopBegin and StopTeardown, the worker threads are never joined.        *)
(***************************************************************************)
CallStop == StopBegin

StopReturns == StopTeardown

NextShutdown ==
    \/ ReceiveWhileWorking
    \/ WorkerBuildsPrompt
    \/ WorkerInfers
    \/ WorkerPublishes
    \/ CallStop
    \/ StopReturns

SpecShutdown == InitWorkers /\ [][NextShutdown]_vars

\* C31: within one session the "leaving" message is the last message the
\* device publishes: under every interleaving of stop() with the workers
\* in flight, nothing is published after it before the next start().
C31_LeavingIsLast ==
    \A i, j \in 1..Len(sent) :
        (i < j /\ sent[i] = "leaving")
        => \E k \in (i + 1)..j : sent[k] = "start"

====
